---- MODULE Spec2Model ----
(***************************************************************************)
(* Model of the task scheduling engine of Co-worker Bot:                   *)
(*   TaskConfig.is_within_session        (src/src/config_loader.py)        *)
(*   TaskRunner.check_time / run_task / run_group and the control          *)
(*   operations request_stop / pause / resume (src/src/logic_robot.py).    *)
(*                                                                         *)
(* Time is counted in abstract ticks.  A calendar day has DayLen ticks, a  *)
(* datetime is an absolute tick number n with date n \div DayLen and       *)
(* time-of-day n % DayLen.                                                 *)
(***************************************************************************)
EXTENDS Integers, Sequences, FiniteSets, TLC

(* ----------------------------- bounds ---------------------------------- *)
DayLen == 5          \* ticks in one day
MaxNow == 5          \* the clock is observed up to this absolute tick
MaxTasks == 2        \* longest task list handed to run_group
MaxRows == 3         \* most rows of the task master sheet

(* --------------------------- program constants ------------------------- *)
PollInterval == 2    \* the 60 second polling step of check_time (a tick is 30 s)

VARIABLES
    tasks,                  \* the TaskConfig records given to run_group
    configured,             \* the same records as they were when run_group was called
    force,                  \* the force argument of run_group
    now,                    \* datetime.now()
    stop_requested,         \* TaskRunner.stop_requested
    paused,                 \* TaskRunner.paused
    pc,                     \* position of the worker thread
    i,                      \* loop index of run_group (1-based)
    results,                \* the results dict of run_group
    caller,                 \* who called check_time: "group" or "task"
    wait_until,             \* local wait_until of check_time
    ct_result,              \* last value returned by check_time
    ct_waited,              \* a check_time call for the current task entered its wait loop
    ct_slept,               \* the running check_time call has slept in its wait loop
    original_close_after,   \* local original_close_after of run_group
    should_skip,            \* local should_skip of run_group
    workbook,               \* ExcelHandler.workbook (the open file or "None")
    current_workbook_path,  \* TaskRunner.current_workbook_path
    stage,                  \* per task: furthest step run_group reached for it
    record,                 \* per task: the counter it was added to
    ops,                    \* per task: the calls run_task made for it, in order
    entry_flags,            \* the two flags as they were when run_group was called
                            \* (kept until the loop starts)
    within,                 \* result of a stand-alone is_within_session call
    master,                 \* the rows of the task master sheet
    jpholiday,              \* what the jpholiday library says about today
    returned                \* value returned by a stand-alone call of a function

vars == <<tasks, configured, force, now, stop_requested,
          paused, pc, i, results, caller, wait_until, ct_result, ct_waited,
          ct_slept, original_close_after, should_skip, workbook,
          current_workbook_path, stage, record, ops, entry_flags, within,
          master, jpholiday, returned>>

\* everything the worker thread owns: all state but the two flags and the clock
runnerVars == <<tasks, configured, force, pc, i, results,
                caller, wait_until, ct_result, ct_waited, ct_slept,
                original_close_after, should_skip, workbook, current_workbook_path,
                stage, record, ops, entry_flags, within, master, jpholiday,
                returned>>

(* ----------------------------- datetime -------------------------------- *)
Day == 0 .. (DayLen - 1)

TimeOf(n) == n % DayLen

DateOf(n) == n \div DayLen

Combine(d, t) == d * DayLen + t

(* ------------------------- TaskConfig.is_within_session ---------------- *)
\* variant: the end instant of a same-day window is left out
is_within_session_end_excluded(task, current_time) ==
    LET now_time == TimeOf(current_time) IN
    IF task.start_time <= task.end_time
    THEN task.start_time <= now_time /\ now_time < task.end_time
    ELSE now_time >= task.start_time \/ now_time <= task.end_time

\* variant: a midnight-crossing window needs both comparisons to hold
is_within_session_crossing_and(task, current_time) ==
    LET now_time == TimeOf(current_time) IN
    IF task.start_time <= task.end_time
    THEN task.start_time <= now_time /\ now_time <= task.end_time
    ELSE now_time >= task.start_time /\ now_time <= task.end_time

\* variant: start_time = end_time is taken as a midnight-crossing window
is_within_session_equal_crossing(task, current_time) ==
    LET now_time == TimeOf(current_time) IN
    IF task.start_time < task.end_time
    THEN task.start_time <= now_time /\ now_time <= task.end_time
    ELSE now_time >= task.start_time \/ now_time <= task.end_time

is_within_session(task, current_time) ==
    LET now_time == TimeOf(current_time) IN
    IF task.start_time <= task.end_time
    THEN task.start_time <= now_time /\ now_time <= task.end_time
    ELSE now_time >= task.start_time \/ now_time <= task.end_time

(* ------------------------------ inputs --------------------------------- *)
NoFile == "None"

\* a task that has no download step, no macro and nothing to do afterwards
TaskConfig(s, e, f, c) ==
    [start_time |-> s, end_time |-> e, file_path |-> f, close_after |-> c,
     action_after |-> "None", skip_download |-> TRUE, macro_name |-> ""]

\* the scheduled tasks: a same-day window with room before, inside and after
\* it on a workbook that is left open, and a midnight-crossing window on a
\* workbook that is closed after use
TaskPool ==
    {TaskConfig(1, 3, "A.xlsx", FALSE),
     TaskConfig(DayLen - 1, 1, "B.xlsx", TRUE)}

SeqsUpTo(S, n) == UNION {[1 .. k -> S] : k \in 1 .. n}

TaskLists == SeqsUpTo(TaskPool, MaxTasks)

ZeroResults == [success |-> 0, failed |-> 0, skipped |-> 0]

Bump(r, key) == [r EXCEPT ![key] = @ + 1]

(* -------------------------- groups of variables ------------------------ *)
flagVars == <<stop_requested, paused>>

ctVars == <<caller, wait_until, ct_result, ct_waited, ct_slept>>

bookVars == <<workbook, current_workbook_path>>

\* state of the stand-alone function calls
callVars == <<master, jpholiday, returned>>

batchVars == <<configured, force, entry_flags>>

NoFlags == [stop_requested |-> FALSE, paused |-> FALSE]

\* the value of a call of fn; no call has been made yet
Returned(fn, value) == [fn |-> fn, value |-> value]

NoCall == Returned("none", "none")

(* ------------------------------- Init ---------------------------------- *)
\* TaskRunner.__init__: both flags false, no workbook; no batch is running
Init ==
    /\ tasks = <<>>
    /\ configured = <<>>
    /\ force = FALSE
    /\ now = 0
    /\ stop_requested = FALSE
    /\ paused = FALSE
    /\ pc = "idle"
    /\ i = 1
    /\ results = ZeroResults
    /\ caller = "group"
    /\ wait_until = 0
    /\ ct_result = "none"
    /\ ct_waited = FALSE
    /\ ct_slept = FALSE
    /\ original_close_after = FALSE
    /\ should_skip = FALSE
    /\ workbook = NoFile
    /\ current_workbook_path = NoFile
    /\ stage = <<>>
    /\ record = <<>>
    /\ ops = <<>>
    /\ entry_flags = NoFlags
    /\ within = "none"
    /\ master = <<>>
    /\ jpholiday = "not_holiday"
    /\ returned = NoCall

(* ------------------- control operations (other thread) ----------------- *)
\* variant: a stop request also lifts the pause
request_stop_lifts_pause ==
    /\ stop_requested' = TRUE
    /\ paused' = FALSE
    /\ UNCHANGED <<now, runnerVars>>

\* self.stop_requested = True
request_stop ==
    /\ stop_requested' = TRUE
    /\ UNCHANGED <<paused, now, runnerVars>>

pause ==
    /\ paused' = TRUE
    /\ UNCHANGED <<stop_requested, now, runnerVars>>

resume ==
    /\ paused' = FALSE
    /\ UNCHANGED <<stop_requested, now, runnerVars>>

\* the wall clock advances on its own, whatever the worker is doing
Tick ==
    /\ now < MaxNow
    /\ now' = now + 1
    /\ UNCHANGED <<flagVars, runnerVars>>

(* ------------------------------ run_group ------------------------------ *)
\* the caller invokes run_group(tasks, force); nothing of its body has run yet
run_group_call(ts, f) ==
    /\ pc = "idle"
    /\ pc' = "rg_init"
    /\ tasks' = ts
    /\ configured' = ts
    /\ force' = f
    /\ entry_flags' = [stop_requested |-> stop_requested, paused |-> paused]
    /\ stage' = [j \in 1 .. Len(ts) |-> "none"]
    /\ record' = [j \in 1 .. Len(ts) |-> "none"]
    /\ ops' = [j \in 1 .. Len(ts) |-> <<>>]
    /\ UNCHANGED <<now, flagVars, i, results, ctVars, original_close_after, should_skip,
                   bookVars, within, callVars>>

\* variant: stop_requested is not initialised
rg_init_stop_kept ==
    /\ pc = "rg_init"
    /\ results' = ZeroResults
    /\ i' = 1
    /\ pc' = "for"
    /\ UNCHANGED <<tasks, batchVars, now, flagVars, ctVars, original_close_after, should_skip,
                   bookVars, stage, record, ops, within, callVars>>

\* variant: both flags are initialised
rg_init_both_flags ==
    /\ pc = "rg_init"
    /\ results' = ZeroResults
    /\ stop_requested' = FALSE
    /\ paused' = FALSE
    /\ i' = 1
    /\ pc' = "for"
    /\ UNCHANGED <<tasks, batchVars, now, ctVars, original_close_after, should_skip,
                   bookVars, stage, record, ops, within, callVars>>

\* results = {...}; total_tasks = len(tasks); self.stop_requested = False
rg_init ==
    /\ pc = "rg_init"
    /\ results' = ZeroResults
    /\ stop_requested' = FALSE
    /\ i' = 1
    /\ pc' = "for"
    /\ UNCHANGED <<tasks, batchVars, now, paused, ctVars, original_close_after, should_skip,
                   bookVars, stage, record, ops, within, callVars>>

\* for i, task in enumerate(tasks, 1): if self.stop_requested: break
rg_for ==
    /\ pc = "for"
    /\ pc' = IF i > Len(tasks) \/ stop_requested THEN "rg_end" ELSE "pause_while"
    /\ entry_flags' = NoFlags
    /\ UNCHANGED <<tasks, configured, force, now, flagVars, i, results, ctVars,
                   original_close_after, should_skip, bookVars, stage, record, ops, within, callVars>>

\* variant: the pause loop is never entered
rg_pause_while_skipped ==
    /\ pc = "pause_while"
    /\ pc' = "stop_recheck"
    /\ UNCHANGED <<tasks, batchVars, now, flagVars, i, results, ctVars,
                   original_close_after, should_skip, bookVars, stage, record, ops, within, callVars>>

\* while self.paused:
rg_pause_while ==
    /\ pc = "pause_while"
    /\ pc' = IF paused THEN "pause_sleep" ELSE "stop_recheck"
    /\ UNCHANGED <<tasks, batchVars, now, flagVars, i, results, ctVars,
                   original_close_after, should_skip, bookVars, stage, record, ops, within, callVars>>

\* variant: the pause loop does not look at stop_requested
rg_pause_sleep_stop_ignored ==
    /\ pc = "pause_sleep"
    /\ pc' = "pause_while"
    /\ UNCHANGED <<tasks, batchVars, now, flagVars, i, results, ctVars,
                   original_close_after, should_skip, bookVars, stage, record, ops, within, callVars>>

\* time_module.sleep(0.5); if self.stop_requested: break
rg_pause_sleep ==
    /\ pc = "pause_sleep"
    /\ pc' = IF stop_requested THEN "stop_recheck" ELSE "pause_while"
    /\ UNCHANGED <<tasks, batchVars, now, flagVars, i, results, ctVars,
                   original_close_after, should_skip, bookVars, stage, record, ops, within, callVars>>

\* variant: no second check after the pause loop
rg_stop_recheck_missing ==
    /\ pc = "stop_recheck"
    /\ pc' = "iteration"
    /\ UNCHANGED <<tasks, batchVars, now, flagVars, i, results, ctVars,
                   original_close_after, should_skip, bookVars, stage, record, ops, within, callVars>>

\* the second check after the pause loop: if self.stop_requested: break
rg_stop_recheck ==
    /\ pc = "stop_recheck"
    /\ pc' = IF stop_requested THEN "rg_end" ELSE "iteration"
    /\ UNCHANGED <<tasks, batchVars, now, flagVars, i, results, ctVars,
                   original_close_after, should_skip, bookVars, stage, record, ops, within, callVars>>

\* the record of task k with its close_after set to v
WithClose(ts, k, v) == [ts EXCEPT ![k].close_after = v]

\* variant: close_after keeps the value it had during the iteration
FinishIteration_not_restored(key, restored) ==
    /\ results' = Bump(results, key)
    /\ record' = [record EXCEPT ![i] = key]
    /\ tasks' = tasks
    /\ i' = i + 1
    /\ pc' = "for"
    /\ original_close_after' = FALSE
    /\ should_skip' = FALSE
    /\ caller' = "group"
    /\ wait_until' = 0
    /\ ct_result' = "none"
    /\ ct_waited' = FALSE
    /\ ct_slept' = FALSE

\* variant: the task after the finished one is passed over
FinishIteration_next_passed_over(key, restored) ==
    /\ results' = Bump(results, key)
    /\ record' = [record EXCEPT ![i] = key]
    /\ tasks' = WithClose(tasks, i, restored)
    /\ i' = i + 2
    /\ pc' = "for"
    /\ original_close_after' = FALSE
    /\ should_skip' = FALSE
    /\ caller' = "group"
    /\ wait_until' = 0
    /\ ct_result' = "none"
    /\ ct_waited' = FALSE
    /\ ct_slept' = FALSE

\* one iteration is over: task.close_after = original_close_after, next i;
\* the locals of the iteration and of its check_time calls are gone
FinishIteration(key, restored) ==
    /\ results' = Bump(results, key)
    /\ record' = [record EXCEPT ![i] = key]
    /\ tasks' = WithClose(tasks, i, restored)
    /\ i' = i + 1
    /\ pc' = "for"
    /\ original_close_after' = FALSE
    /\ should_skip' = FALSE
    /\ caller' = "group"
    /\ wait_until' = 0
    /\ ct_result' = "none"
    /\ ct_waited' = FALSE
    /\ ct_slept' = FALSE

\* variant: close_after is never deferred
rg_iteration_no_deferral(skip) ==
    /\ pc = "iteration"
    /\ original_close_after' = tasks[i].close_after
    /\ should_skip' = skip
    /\ stage' = [stage EXCEPT ![i] = "recurrence"]
    /\ pc' = "after_should_skip"
    /\ UNCHANGED <<tasks, batchVars, now, flagVars, i, results, ctVars, bookVars,
                   record, ops, within, callVars>>

\* smart close_after, then should_skip = should_skip_task(...); the verdict of
\* the recurrence evaluator depends on today's date and is taken as an input
rg_iteration(skip) ==
    /\ pc = "iteration"
    /\ LET task == tasks[i]
           is_last_for_this_file ==
               i >= Len(tasks) \/ tasks[i + 1].file_path # task.file_path
           deferred == ~is_last_for_this_file /\ task.close_after
       IN  /\ original_close_after' = task.close_after
           /\ tasks' = IF deferred THEN WithClose(tasks, i, FALSE) ELSE tasks
    /\ should_skip' = skip
    /\ stage' = [stage EXCEPT ![i] = "recurrence"]
    /\ pc' = "after_should_skip"
    /\ UNCHANGED <<batchVars, now, flagVars, i, results, ctVars, bookVars,
                   record, ops, within, callVars>>

\* variant: a recurrence skip is counted under failed
rg_after_should_skip_failed ==
    /\ pc = "after_should_skip"
    /\ IF should_skip
       THEN /\ FinishIteration("failed", original_close_after)
            /\ UNCHANGED <<stage, ops>>
       ELSE /\ stage' = [stage EXCEPT ![i] = "check_time"]
            /\ pc' = "check_time"
            /\ caller' = "group"
            /\ UNCHANGED <<tasks, i, results, record, ops, wait_until, ct_result,
                           ct_waited, ct_slept, original_close_after, should_skip>>
    /\ UNCHANGED <<batchVars, now, flagVars, bookVars, within, callVars>>

\* if should_skip: skipped += 1; task.close_after = original_close_after;
\* continue.  Otherwise run_group goes on to its check_time call
rg_after_should_skip ==
    /\ pc = "after_should_skip"
    /\ IF should_skip
       THEN /\ FinishIteration("skipped", original_close_after)
            /\ UNCHANGED <<stage, ops>>
       ELSE /\ stage' = [stage EXCEPT ![i] = "check_time"]
            /\ pc' = "check_time"
            /\ caller' = "group"
            /\ UNCHANGED <<tasks, i, results, record, ops, wait_until, ct_result,
                           ct_waited, ct_slept, original_close_after, should_skip>>
    /\ UNCHANGED <<batchVars, now, flagVars, bookVars, within, callVars>>

(* ------------------------------ check_time ----------------------------- *)
\* check_time returns val to whoever called it
ct_return(val) ==
    /\ ct_result' = IF val THEN "true" ELSE "false"
    /\ pc' = IF caller = "group" THEN "rg_after_check_time" ELSE "rt_after_check_time"

\* variant: the force argument is not looked at
ct_decision_force_ignored(task, f, n) ==
    LET now_time == TimeOf(n)
        wait_at == Combine(DateOf(n), task.start_time)
    IN  IF is_within_session(task, n) THEN "true"
        ELSE IF task.start_time > task.end_time
                /\ ~(now_time > task.end_time /\ now_time < task.start_time)
             THEN "false"
        ELSE IF task.start_time <= task.end_time /\ now_time > task.end_time
             THEN "false"
        ELSE IF n > wait_at THEN "false"
        ELSE "wait"

\* variant: a same-day window counts as closed from its end instant on, and
\* this is tested before the session test
ct_decision_end_closed(task, f, n) ==
    LET now_time == TimeOf(n)
        wait_at == Combine(DateOf(n), task.start_time)
    IN  IF f THEN "true"
        ELSE IF task.start_time <= task.end_time /\ now_time >= task.end_time
             THEN "false"
        ELSE IF is_within_session(task, n) THEN "true"
        ELSE IF task.start_time > task.end_time
                /\ ~(now_time > task.end_time /\ now_time < task.start_time)
             THEN "false"
        ELSE IF n > wait_at THEN "false"
        ELSE "wait"

\* variant: outside a midnight-crossing window the window is taken as closed
ct_decision_crossing_closed(task, f, n) ==
    LET now_time == TimeOf(n)
        wait_at == Combine(DateOf(n), task.start_time)
    IN  IF f THEN "true"
        ELSE IF is_within_session(task, n) THEN "true"
        ELSE IF task.start_time > task.end_time THEN "false"
        ELSE IF task.start_time <= task.end_time /\ now_time > task.end_time
             THEN "false"
        ELSE IF n > wait_at THEN "false"
        ELSE "wait"

\* what check_time decides before any waiting: "true", "false" or "wait"
ct_decision(task, f, n) ==
    LET now_time == TimeOf(n)
        wait_at == Combine(DateOf(n), task.start_time)
    IN  IF f THEN "true"
        ELSE IF is_within_session(task, n) THEN "true"
        ELSE IF task.start_time > task.end_time
                /\ ~(now_time > task.end_time /\ now_time < task.start_time)
             THEN "false"
        ELSE IF task.start_time <= task.end_time /\ now_time > task.end_time
             THEN "false"
        ELSE IF n > wait_at THEN "false"
        ELSE "wait"

\* check_time up to the start of its wait loop
ct_entry ==
    /\ pc = "check_time"
    /\ LET d == ct_decision(tasks[i], force, now)
       IN  IF d = "wait"
           THEN /\ wait_until' = Combine(DateOf(now), tasks[i].start_time)
                /\ ct_waited' = TRUE
                /\ pc' = "ct_while"
                /\ UNCHANGED ct_result
           ELSE /\ ct_return(d = "true")
                /\ UNCHANGED <<wait_until, ct_waited>>
    /\ UNCHANGED <<tasks, batchVars, now, flagVars, i, results, caller, ct_slept,
                   original_close_after, should_skip, bookVars, stage, record, ops, within, callVars>>

\* while datetime.now() < wait_until:
ct_while ==
    /\ pc = "ct_while"
    /\ IF now < wait_until
       THEN pc' = "ct_stop_check" /\ UNCHANGED ct_result
       ELSE ct_return(TRUE)
    /\ UNCHANGED <<tasks, batchVars, now, flagVars, i, results, caller, wait_until,
                   ct_waited, ct_slept, original_close_after, should_skip, bookVars, stage,
                   record, ops, within, callVars>>

\* variant: a pause seen in the wait loop ends the wait like a cancellation
ct_stop_check_pause_ends ==
    /\ pc = "ct_stop_check"
    /\ IF stop_requested \/ paused
       THEN ct_return(FALSE)
       ELSE pc' = "ct_sleep" /\ UNCHANGED ct_result
    /\ UNCHANGED <<tasks, batchVars, now, flagVars, i, results, caller, wait_until,
                   ct_waited, ct_slept, original_close_after, should_skip, bookVars, stage,
                   record, ops, within, callVars>>

\* if self.stop_requested: return False   (self.paused is only reported)
ct_stop_check ==
    /\ pc = "ct_stop_check"
    /\ IF stop_requested
       THEN ct_return(FALSE)
       ELSE pc' = "ct_sleep" /\ UNCHANGED ct_result
    /\ UNCHANGED <<tasks, batchVars, now, flagVars, i, results, caller, wait_until,
                   ct_waited, ct_slept, original_close_after, should_skip, bookVars, stage,
                   record, ops, within, callVars>>

Min(a, b) == IF a < b THEN a ELSE b

Max(a, b) == IF a > b THEN a ELSE b

\* sleep_time = min(60, max(1, remaining))
sleep_time(remaining) == Min(PollInterval, Max(1, remaining))

\* remaining = wait_until - now; time_module.sleep(sleep_time)
ct_sleep ==
    /\ pc = "ct_sleep"
    /\ now + sleep_time(wait_until - now) <= MaxNow
    /\ now' = now + sleep_time(wait_until - now)
    /\ ct_slept' = TRUE
    /\ pc' = "ct_while"
    /\ UNCHANGED <<tasks, batchVars, flagVars, i, results, caller, wait_until,
                   ct_result, ct_waited, original_close_after, should_skip, bookVars, stage,
                   record, ops, within, callVars>>

(* ------------------ run_group: after its check_time call --------------- *)
\* variant: the skip is counted but the iteration goes on to run_task
rg_after_check_time_no_continue ==
    /\ pc = "rg_after_check_time"
    /\ results' = IF ct_result = "false" THEN Bump(results, "skipped") ELSE results
    /\ stage' = [stage EXCEPT ![i] = "run_task"]
    /\ pc' = "check_time"
    /\ caller' = "task"
    /\ ct_slept' = FALSE
    /\ UNCHANGED <<tasks, i, record, ops, wait_until, ct_result, ct_waited,
                   original_close_after, should_skip>>
    /\ UNCHANGED <<batchVars, now, flagVars, bookVars, within, callVars>>

\* if not self.check_time(task, force): skipped += 1 ... continue
\* otherwise self.run_task(task, i, total_tasks, force), which starts with its
\* own call of check_time
rg_after_check_time ==
    /\ pc = "rg_after_check_time"
    /\ IF ct_result = "false"
       THEN /\ FinishIteration("skipped", original_close_after)
            /\ UNCHANGED <<stage, ops>>
       ELSE /\ stage' = [stage EXCEPT ![i] = "run_task"]
            /\ pc' = "check_time"
            /\ caller' = "task"
            /\ ct_slept' = FALSE
            /\ UNCHANGED <<tasks, i, results, record, ops, wait_until, ct_result,
                           ct_waited, original_close_after, should_skip>>
    /\ UNCHANGED <<batchVars, now, flagVars, bookVars, within, callVars>>

(* ------------------------------- run_task ------------------------------ *)
\* if not self.check_time(task, force): return False   (run_group: failed += 1)
rt_after_check_time ==
    /\ pc = "rt_after_check_time"
    /\ IF ct_result = "false"
       THEN /\ FinishIteration("failed", original_close_after)
            /\ UNCHANGED ops
       ELSE /\ pc' = "rt_body"
            /\ UNCHANGED <<tasks, i, results, record, ops, ctVars, original_close_after, should_skip>>
    /\ UNCHANGED <<batchVars, now, flagVars, bookVars, stage, within, callVars>>

\* one call made by run_task and whether it did what it was asked to
Call(name, ok) == [call |-> name, ok |-> ok]

DownloadSteps ==
    <<"cleanup_existing_csv", "trigger_download", "wait_for_download",
      "paste_data_to_sheet">>

\* where a run of the try block goes wrong: nowhere, at a call that reports
\* failure, or at an exception raised by the progress callback on entry to the
\* post-action
FailPoints ==
    {"none", "start_excel", "open_workbook", "exception"}
        \cup {DownloadSteps[k] : k \in 1 .. Len(DownloadSteps)}

IsDownloadStep(fail) == \E k \in 1 .. Len(DownloadSteps) : DownloadSteps[k] = fail

\* the download calls made when `fail` is the one that fails (all four if none)
DownloadCalls(fail) ==
    IF IsDownloadStep(fail)
    THEN LET k == CHOOSE n \in 1 .. Len(DownloadSteps) : DownloadSteps[n] = fail
         IN  [n \in 1 .. k |-> Call(DownloadSteps[n], n < k)]
    ELSE [n \in 1 .. Len(DownloadSteps) |-> Call(DownloadSteps[n], TRUE)]

\* str.upper() on the values found in the ActionAfter column
Upper(str) ==
    CASE str = "Save" -> "SAVE"
      [] str = "Pause" -> "PAUSE"
      [] str = "pause" -> "PAUSE"
      [] str = "None" -> "NONE"
      [] str = "nan" -> "NAN"
      [] OTHER -> str

RunTaskResult(ret, wb, path, calls) ==
    [ret |-> ret, workbook |-> wb, current_workbook_path |-> path, ops |-> calls]

\* variant: an open workbook is never reused
need_open_workbook_always(task, wb, path) == TRUE

\* variant: whatever workbook is open is reused
need_open_workbook_any_open(task, wb, path) == wb = NoFile

\* need_open_workbook is False when the task's file is the one already open
need_open_workbook(task, wb, path) == ~(path = task.file_path /\ wb # NoFile)

\* variant: PAUSE shows its message and saves nothing
post_action_pause_unsaved(task, save_ok) ==
    LET action == Upper(task.action_after)
    IN  IF action = "PAUSE" THEN <<Call("show_info", TRUE)>>
        ELSE IF action = "NONE" \/ action = "" THEN <<>>
        ELSE <<Call("save_workbook", save_ok)>>

\* variant: a blank ActionAfter is saved like an unrecognized one
post_action_blank_saves(task, save_ok) ==
    LET action == Upper(task.action_after)
    IN  IF action = "PAUSE"
        THEN <<Call("show_info", TRUE), Call("save_workbook", save_ok)>>
        ELSE IF action = "NONE" THEN <<>>
        ELSE <<Call("save_workbook", save_ok)>>

\* the calls of the ActionAfter step; none of them ends the task, whatever
\* save_workbook returns
post_action(task, save_ok) ==
    LET action == Upper(task.action_after)
    IN  IF action = "PAUSE"
        THEN <<Call("show_info", TRUE), Call("save_workbook", save_ok)>>
        ELSE IF action = "NONE" \/ action = "" THEN <<>>
        ELSE <<Call("save_workbook", save_ok)>>

\* variant: the macro is run after the ActionAfter step
task_steps_macro_last(download_calls, macro_calls, action_calls) ==
    download_calls \o action_calls \o macro_calls

\* the order of the steps between opening and closing: download and paste, the
\* macro, the ActionAfter step
task_steps(download_calls, macro_calls, action_calls) ==
    download_calls \o macro_calls \o action_calls

\* variant: the download steps are run whatever skip_download says
rt_try_download_always(task, wb, path, fail, macro_ok, save_ok) ==
    LET start_calls == <<Call("start_excel", fail # "start_excel")>>
        open_calls ==
            IF ~need_open_workbook(task, wb, path) THEN <<Call("reuse", TRUE)>>
            ELSE (IF wb # NoFile THEN <<Call("close_previous", TRUE)>> ELSE <<>>)
                 \o <<Call("open_workbook", fail # "open_workbook")>>
        download_calls == DownloadCalls(fail)
        macro_calls ==
            IF task.macro_name = "" THEN <<>>
            ELSE IF macro_ok THEN <<Call("run_macro", TRUE)>>
            ELSE <<Call("run_macro", FALSE), Call("show_warning", TRUE)>>
        action_calls == post_action(task, save_ok)
        close_calls ==
            IF task.close_after
            THEN <<Call("close_workbook", TRUE), Call("quit_excel", TRUE)>>
            ELSE <<>>
        wb_end == IF task.close_after THEN NoFile ELSE task.file_path
    IN  IF fail = "start_excel"
        THEN RunTaskResult(FALSE, wb, path, start_calls)
        ELSE IF fail = "open_workbook"
        THEN RunTaskResult(FALSE, NoFile, path,
                           start_calls \o open_calls \o <<Call("quit_excel", TRUE)>>)
        ELSE IF IsDownloadStep(fail)
        THEN RunTaskResult(FALSE, wb_end, wb_end,
                           start_calls \o open_calls \o download_calls \o close_calls)
        ELSE IF fail = "exception"
        THEN RunTaskResult(FALSE, wb_end, wb_end,
                           start_calls \o open_calls \o download_calls
                               \o macro_calls \o <<Call("_notify_progress", FALSE)>>
                               \o close_calls)
        ELSE RunTaskResult(TRUE, wb_end, wb_end,
                           start_calls \o open_calls
                               \o task_steps(download_calls, macro_calls, action_calls)
                               \o close_calls)

\* variant: a failed step returns at once and leaves the workbook as it is
rt_try_failure_no_cleanup(task, wb, path, fail, macro_ok, save_ok) ==
    LET start_calls == <<Call("start_excel", fail # "start_excel")>>
        open_calls ==
            IF ~need_open_workbook(task, wb, path) THEN <<Call("reuse", TRUE)>>
            ELSE (IF wb # NoFile THEN <<Call("close_previous", TRUE)>> ELSE <<>>)
                 \o <<Call("open_workbook", fail # "open_workbook")>>
        download_calls == IF task.skip_download THEN <<>> ELSE DownloadCalls(fail)
        macro_calls ==
            IF task.macro_name = "" THEN <<>>
            ELSE IF macro_ok THEN <<Call("run_macro", TRUE)>>
            ELSE <<Call("run_macro", FALSE), Call("show_warning", TRUE)>>
        action_calls == post_action(task, save_ok)
        close_calls ==
            IF task.close_after
            THEN <<Call("close_workbook", TRUE), Call("quit_excel", TRUE)>>
            ELSE <<>>
        wb_end == IF task.close_after THEN NoFile ELSE task.file_path
    IN  IF fail = "start_excel"
        THEN RunTaskResult(FALSE, wb, path, start_calls)
        ELSE IF fail = "open_workbook"
        THEN RunTaskResult(FALSE, NoFile, path,
                           start_calls \o open_calls \o <<Call("quit_excel", TRUE)>>)
        ELSE IF IsDownloadStep(fail)
        THEN RunTaskResult(FALSE, task.file_path, task.file_path,
                           start_calls \o open_calls \o download_calls)
        ELSE IF fail = "exception"
        THEN RunTaskResult(FALSE, task.file_path, task.file_path,
                           start_calls \o open_calls \o download_calls
                               \o macro_calls \o <<Call("_notify_progress", FALSE)>>)
        ELSE RunTaskResult(TRUE, wb_end, wb_end,
                           start_calls \o open_calls
                               \o task_steps(download_calls, macro_calls, action_calls)
                               \o close_calls)

\* the try block of run_task and its except handler: the value returned, the
\* workbook state left behind and the calls made, for a task found with
\* workbook wb and current_workbook_path path
rt_try(task, wb, path, fail, macro_ok, save_ok) ==
    LET start_calls == <<Call("start_excel", fail # "start_excel")>>
        open_calls ==
            IF ~need_open_workbook(task, wb, path) THEN <<Call("reuse", TRUE)>>
            ELSE (IF wb # NoFile THEN <<Call("close_previous", TRUE)>> ELSE <<>>)
                 \o <<Call("open_workbook", fail # "open_workbook")>>
        download_calls == IF task.skip_download THEN <<>> ELSE DownloadCalls(fail)
        macro_calls ==
            IF task.macro_name = "" THEN <<>>
            ELSE IF macro_ok THEN <<Call("run_macro", TRUE)>>
            ELSE <<Call("run_macro", FALSE), Call("show_warning", TRUE)>>
        action_calls == post_action(task, save_ok)
        close_calls ==
            IF task.close_after
            THEN <<Call("close_workbook", TRUE), Call("quit_excel", TRUE)>>
            ELSE <<>>
        wb_end == IF task.close_after THEN NoFile ELSE task.file_path
    IN  IF fail = "start_excel"
        THEN RunTaskResult(FALSE, wb, path, start_calls)
        ELSE IF fail = "open_workbook"
        THEN RunTaskResult(FALSE, NoFile, path,
                           start_calls \o open_calls \o <<Call("quit_excel", TRUE)>>)
        ELSE IF IsDownloadStep(fail)
        THEN RunTaskResult(FALSE, wb_end, wb_end,
                           start_calls \o open_calls \o download_calls \o close_calls)
        ELSE IF fail = "exception"
        THEN RunTaskResult(FALSE, wb_end, wb_end,
                           start_calls \o open_calls \o download_calls
                               \o macro_calls \o <<Call("_notify_progress", FALSE)>>
                               \o close_calls)
        ELSE RunTaskResult(TRUE, wb_end, wb_end,
                           start_calls \o open_calls
                               \o task_steps(download_calls, macro_calls, action_calls)
                               \o close_calls)

\* run_task after its check_time call, for one behaviour of the external calls,
\* and the counting and restoring run_group does when run_task returns
rt_body(fail, macro_ok, save_ok) ==
    /\ pc = "rt_body"
    /\ LET task == tasks[i]
           r == rt_try(task, workbook, current_workbook_path, fail, macro_ok, save_ok)
       IN  /\ fail = "open_workbook" =>
                  need_open_workbook(task, workbook, current_workbook_path)
           /\ IsDownloadStep(fail) => ~task.skip_download
           /\ workbook' = r.workbook
           /\ current_workbook_path' = r.current_workbook_path
           /\ ops' = [ops EXCEPT ![i] = r.ops]
           /\ FinishIteration(IF r.ret THEN "success" ELSE "failed",
                              original_close_after)
    /\ UNCHANGED <<batchVars, now, flagVars, stage, within, callVars>>

\* after the loop nothing is closed; the counts are returned to the caller and
\* the frame of run_group is gone
rg_end ==
    /\ pc = "rg_end"
    /\ pc' = "idle"
    /\ tasks' = <<>>
    /\ configured' = <<>>
    /\ force' = FALSE
    /\ entry_flags' = NoFlags
    /\ i' = 1
    /\ results' = ZeroResults
    /\ stage' = <<>>
    /\ record' = <<>>
    /\ ops' = <<>>
    /\ UNCHANGED <<now, flagVars, ctVars, original_close_after, should_skip, bookVars, within, callVars>>

(* --------------------------- specification ----------------------------- *)
Next ==
    \/ \E ts \in TaskLists, f \in BOOLEAN : run_group_call(ts, f)
    \/ rg_init
    \/ rg_for
    \/ rg_pause_while
    \/ rg_pause_sleep
    \/ rg_stop_recheck
    \/ \E skip \in BOOLEAN : rg_iteration(skip)
    \/ rg_after_should_skip
    \/ ct_entry
    \/ ct_while
    \/ ct_stop_check
    \/ ct_sleep
    \/ rg_after_check_time
    \/ rt_after_check_time
    \/ \E fail \in FailPoints, macro_ok \in BOOLEAN, save_ok \in BOOLEAN :
           rt_body(fail, macro_ok, save_ok)
    \/ rg_end
    \/ request_stop
    \/ pause
    \/ resume
    \/ Tick

Spec == Init /\ [][Next]_vars

(* ------------- the scheduler with a worker thread that runs ------------- *)
\* the steps of the worker thread inside run_group
WorkerStep ==
    \/ rg_init
    \/ rg_for
    \/ rg_pause_while
    \/ rg_pause_sleep
    \/ rg_stop_recheck
    \/ \E skip \in BOOLEAN : rg_iteration(skip)
    \/ rg_after_should_skip
    \/ ct_entry
    \/ ct_while
    \/ ct_stop_check
    \/ ct_sleep
    \/ rg_after_check_time
    \/ rt_after_check_time
    \/ \E fail \in FailPoints, macro_ok \in BOOLEAN, save_ok \in BOOLEAN :
           rt_body(fail, macro_ok, save_ok)
    \/ rg_end

\* the thread that called run_group is scheduled again and again, every call it
\* makes returns, and a sleep ends with the clock advanced
SpecLive == Init /\ [][Next]_vars /\ WF_vars(WorkerStep)

(* --------- is_within_session on its own: every window, every instant --- *)
AllWindows == {TaskConfig(s, e, "A.xlsx", FALSE) : s \in Day, e \in Day}

InitWindow ==
    /\ tasks \in {<<t>> : t \in AllWindows}
    /\ configured = tasks
    /\ force = FALSE
    /\ now \in 0 .. MaxNow
    /\ stop_requested = FALSE
    /\ paused = FALSE
    /\ pc = "idle"
    /\ i = 1
    /\ results = ZeroResults
    /\ caller = "group"
    /\ wait_until = 0
    /\ ct_result = "none"
    /\ ct_waited = FALSE
    /\ ct_slept = FALSE
    /\ original_close_after = FALSE
    /\ should_skip = FALSE
    /\ workbook = NoFile
    /\ current_workbook_path = NoFile
    /\ stage = <<"none">>
    /\ record = <<"none">>
    /\ ops = <<<<>>>>
    /\ entry_flags = NoFlags
    /\ within = "none"
    /\ master = <<>>
    /\ jpholiday = "not_holiday"
    /\ returned = NoCall

\* task.is_within_session(now) is called and its result kept
call_is_within_session ==
    /\ within = "none"
    /\ within' = IF is_within_session(tasks[i], now) THEN "true" ELSE "false"
    /\ UNCHANGED <<tasks, batchVars, now, flagVars, pc, i, results, ctVars,
                   original_close_after, should_skip, bookVars, stage, record, ops,
                   callVars>>

NextWindow == call_is_within_session

SpecWindow == InitWindow /\ [][NextWindow]_vars

(* ------ run_task on its own: one-task force batches, every post-action --- *)
ActionValues == {"Save", "Pause", "pause", "None", "", "nan"}

MacroNames == {"", "Macro1"}

\* every combination of the fields run_task branches on, for one workbook
ActionPool ==
    {[TaskConfig(1, 3, "A.xlsx", c) EXCEPT
          !.action_after = a, !.skip_download = d, !.macro_name = m] :
        c \in BOOLEAN, a \in ActionValues, d \in BOOLEAN, m \in MacroNames}

NextPostAction ==
    \/ \E t \in ActionPool : run_group_call(<<t>>, TRUE)
    \/ rg_init
    \/ rg_for
    \/ rg_pause_while
    \/ rg_stop_recheck
    \/ rg_iteration(FALSE)
    \/ rg_after_should_skip
    \/ ct_entry
    \/ rg_after_check_time
    \/ rt_after_check_time
    \/ \E fail \in FailPoints, macro_ok \in BOOLEAN, save_ok \in BOOLEAN :
           rt_body(fail, macro_ok, save_ok)
    \/ rg_end

SpecPostAction == Init /\ [][NextPostAction]_vars

(* ------ run_task with its download: force batches on two workbooks ------ *)
\* tasks that download and paste before they save, on two workbooks, with
\* either close_after
DownloadPool ==
    {[TaskConfig(1, 3, f, c) EXCEPT !.action_after = "Save", !.skip_download = FALSE] :
        f \in {"A.xlsx", "B.xlsx"}, c \in BOOLEAN}

NextDownload ==
    \/ \E ts \in SeqsUpTo(DownloadPool, MaxTasks) : run_group_call(ts, TRUE)
    \/ rg_init
    \/ rg_for
    \/ rg_pause_while
    \/ rg_stop_recheck
    \/ rg_iteration(FALSE)
    \/ rg_after_should_skip
    \/ ct_entry
    \/ rg_after_check_time
    \/ rt_after_check_time
    \/ \E fail \in FailPoints, save_ok \in BOOLEAN : rt_body(fail, TRUE, save_ok)
    \/ rg_end

SpecDownload == Init /\ [][NextDownload]_vars

(* ------------------------- strings and the calendar --------------------- *)
\* a string is the sequence of its characters
Digits == <<"0", "1", "2", "3", "4", "5", "6", "7", "8", "9">>

IsDigitChar(c) == \E k \in 1 .. Len(Digits) : Digits[k] = c

DigitValue(c) == (CHOOSE k \in 1 .. Len(Digits) : Digits[k] = c) - 1

\* str.strip(): leading and trailing blanks removed
RECURSIVE str_strip(_)
str_strip(str) ==
    IF str = <<>> THEN <<>>
    ELSE IF Head(str) = " " THEN str_strip(Tail(str))
    ELSE IF str[Len(str)] = " " THEN str_strip(SubSeq(str, 1, Len(str) - 1))
    ELSE str

\* str.split(sep): the pieces between the separators, empty pieces included
RECURSIVE str_split(_, _)
str_split(str, sep) ==
    IF \A k \in 1 .. Len(str) : str[k] # sep THEN <<str>>
    ELSE LET k == CHOOSE n \in 1 .. Len(str) :
                      str[n] = sep /\ \A m \in 1 .. n - 1 : str[m] # sep
         IN  <<SubSeq(str, 1, k - 1)>> \o str_split(SubSeq(str, k + 1, Len(str)), sep)

\* str.upper()
str_upper(str) ==
    [k \in 1 .. Len(str) |->
        IF str[k] = "l" THEN "L" ELSE IF str[k] = "x" THEN "X" ELSE str[k]]

\* str.isdigit()
str_isdigit(str) == str # <<>> /\ \A k \in 1 .. Len(str) : IsDigitChar(str[k])

\* int(str) raises ValueError unless str, blanks at its ends aside, is a run of
\* digits
int_raises(str) == ~str_isdigit(str_strip(str))

RECURSIVE digits_value(_)
digits_value(str) ==
    IF str = <<>> THEN 0
    ELSE 10 * digits_value(SubSeq(str, 1, Len(str) - 1)) + DigitValue(str[Len(str)])

int_of(str) == digits_value(str_strip(str))

IsLeap(year) == (year % 4 = 0 /\ year % 100 # 0) \/ year % 400 = 0

\* variant: February has 28 days in every year
monthrange_no_leap(year, month) ==
    IF month = 2 THEN 28
    ELSE IF month \in {4, 6, 9, 11} THEN 30 ELSE 31

\* calendar.monthrange(year, month)[1]
monthrange(year, month) ==
    IF month = 2 THEN (IF IsLeap(year) THEN 29 ELSE 28)
    ELSE IF month \in {4, 6, 9, 11} THEN 30 ELSE 31

\* the date that lies `days` days after the first of the given month
RECURSIVE date_from(_, _, _)
date_from(year, month, days) ==
    LET length == IF month = 2 THEN (IF IsLeap(year) THEN 29 ELSE 28)
                  ELSE IF month \in {4, 6, 9, 11} THEN 30 ELSE 31
    IN  IF days < length
        THEN [year |-> year, month |-> month, day |-> days + 1]
        ELSE date_from(IF month = 12 THEN year + 1 ELSE year,
                       IF month = 12 THEN 1 ELSE month + 1, days - length)

\* datetime.now() as a calendar date: day 0 of the clock is Sunday 2023-01-01
Today(n) == date_from(2023, 1, DateOf(n))

\* variant: Monday is 0 and Sunday is 6, as date.weekday() counts
isoweekday_from_zero(n) == (DateOf(n) + 6) % 7

\* datetime.now().isoweekday(): 1 = Monday .. 7 = Sunday
isoweekday(n) == ((DateOf(n) + 6) % 7) + 1

(* ---------------------------- holiday_checker -------------------------- *)
\* variant: a missing jpholiday library counts as a holiday
is_japanese_holiday_closed(lib) == lib # "not_holiday"

\* jpholiday.is_holiday(date.today()), False when the import fails
is_japanese_holiday(lib) == lib = "holiday"

NonBlank(str) == str_strip(str) # <<>>

check_weekday_condition(weekdays_str, n) ==
    IF weekdays_str = <<>> \/ str_strip(weekdays_str) = <<>> THEN TRUE
    ELSE LET today_weekday == isoweekday(n)
             pieces == SelectSeq(str_split(weekdays_str, ","), NonBlank)
         IN  IF \E k \in 1 .. Len(pieces) : int_raises(pieces[k])
             THEN TRUE
             ELSE \E k \in 1 .. Len(pieces) : int_of(pieces[k]) = today_weekday

check_date_condition(date_condition_str, n) ==
    IF date_condition_str = <<>> \/ str_strip(date_condition_str) = <<>> THEN TRUE
    ELSE LET today == Today(n)
             last_day == monthrange(today.year, today.month)
             pieces == str_split(date_condition_str, ",")
             conditions == [k \in 1 .. Len(pieces) |-> str_upper(str_strip(pieces[k]))]
         IN  \E k \in 1 .. Len(conditions) :
                 \/ conditions[k] = <<"L">> /\ today.day = last_day
                 \/ /\ conditions[k] # <<"L">>
                    /\ str_isdigit(conditions[k])
                    /\ today.day = int_of(conditions[k])

SkipResult(skip, reason, evaluated) ==
    [skip |-> skip, reason |-> reason, evaluated |-> evaluated]

\* variant: the holiday check comes first
should_skip_task_holiday_first(weekdays, skip_holiday, date_condition, n, lib) ==
    LET holiday == IF skip_holiday THEN <<"is_japanese_holiday">> ELSE <<>>
    IN  IF skip_holiday /\ is_japanese_holiday(lib)
        THEN SkipResult(TRUE, "holiday", holiday)
        ELSE IF ~check_weekday_condition(weekdays, n)
        THEN SkipResult(TRUE, "weekday", holiday \o <<"check_weekday_condition">>)
        ELSE IF ~check_date_condition(date_condition, n)
        THEN SkipResult(TRUE, "date", holiday \o <<"check_weekday_condition",
                                                   "check_date_condition">>)
        ELSE SkipResult(FALSE, "", holiday \o <<"check_weekday_condition",
                                                "check_date_condition">>)

\* the pair returned, the reason given by its kind, and the checks that were
\* called on the way
should_skip_task(weekdays, skip_holiday, date_condition, n, lib) ==
    LET holiday == IF skip_holiday THEN <<"is_japanese_holiday">> ELSE <<>>
    IN  IF ~check_weekday_condition(weekdays, n)
        THEN SkipResult(TRUE, "weekday", <<"check_weekday_condition">>)
        ELSE IF skip_holiday /\ is_japanese_holiday(lib)
        THEN SkipResult(TRUE, "holiday", <<"check_weekday_condition">> \o holiday)
        ELSE IF ~check_date_condition(date_condition, n)
        THEN SkipResult(TRUE, "date", <<"check_weekday_condition">> \o holiday
                                          \o <<"check_date_condition">>)
        ELSE SkipResult(FALSE, "", <<"check_weekday_condition">> \o holiday
                                       \o <<"check_date_condition">>)

(* ------- the recurrence evaluator on its own: every filter, many dates --- *)
\* the values found in the weekday column: none, blanks, working days, the
\* weekend with blanks around the numbers, an empty piece, not a number, and a
\* number beside something that is not one
WeekdayFilters ==
    {<<>>, <<" ", " ">>, <<"1", ",", "2", ",", "3", ",", "4", ",", "5">>,
     <<"6", ",", " ", "7", " ">>, <<"2", ",", ",", "4">>, <<"x">>,
     <<"3", ",", "x">>}

\* the values found in the day-of-month column: none, blanks, two days, the
\* last-day mark in both cases, not a number, and day numbers beside the mark
\* or beside something that is not a number
DateFilters ==
    {<<>>, <<" ">>, <<"1", ",", "1", "5">>, <<"L">>, <<" ", "l">>, <<"x">>,
     <<"2", "8", ",", "x">>, <<"3", "0", ",", "L">>}

RecurrenceTasks ==
    {[weekdays |-> w, skip_holiday |-> h, date_condition |-> d]
         @@ TaskConfig(1, 3, "A.xlsx", FALSE) :
        w \in WeekdayFilters, h \in BOOLEAN, d \in DateFilters}

\* January, February and April 2023 and February 2024, as days of the clock
RecurrenceDays == (0 .. 58) \cup (90 .. 119) \cup (396 .. 424)


HolidayLibrary == {"unavailable", "holiday", "not_holiday"}

InitRecurrence ==
    /\ tasks \in {<<t>> : t \in RecurrenceTasks}
    /\ configured = tasks
    /\ force = FALSE
    /\ now \in {Combine(d, 0) : d \in RecurrenceDays}
    /\ stop_requested = FALSE
    /\ paused = FALSE
    /\ pc = "idle"
    /\ i = 1
    /\ results = ZeroResults
    /\ caller = "group"
    /\ wait_until = 0
    /\ ct_result = "none"
    /\ ct_waited = FALSE
    /\ ct_slept = FALSE
    /\ original_close_after = FALSE
    /\ should_skip = FALSE
    /\ workbook = NoFile
    /\ current_workbook_path = NoFile
    /\ stage = <<"none">>
    /\ record = <<"none">>
    /\ ops = <<<<>>>>
    /\ entry_flags = NoFlags
    /\ within = "none"
    /\ master = <<>>
    /\ jpholiday \in HolidayLibrary
    /\ returned = NoCall

\* everything a stand-alone call leaves alone
restOfState ==
    <<tasks, batchVars, now, flagVars, pc, i, results, ctVars, original_close_after,
      should_skip, bookVars, stage, record, ops, within, master, jpholiday>>

call_check_weekday_condition ==
    /\ returned.fn = "none"
    /\ returned' = Returned("check_weekday_condition",
                            check_weekday_condition(tasks[i].weekdays, now))
    /\ UNCHANGED restOfState

call_check_date_condition ==
    /\ returned.fn = "none"
    /\ returned' = Returned("check_date_condition",
                            check_date_condition(tasks[i].date_condition, now))
    /\ UNCHANGED restOfState

\* should_skip_task(task.weekdays, task.skip_holiday, task.date_condition)
call_should_skip_task ==
    /\ returned.fn = "none"
    /\ returned' = Returned("should_skip_task",
                            should_skip_task(tasks[i].weekdays, tasks[i].skip_holiday,
                                             tasks[i].date_condition, now, jpholiday))
    /\ UNCHANGED restOfState

NextRecurrence ==
    \/ call_check_weekday_condition
    \/ call_check_date_condition
    \/ call_should_skip_task

SpecRecurrence == InitRecurrence /\ [][NextRecurrence]_vars

(* ------------------- ConfigLoader: ordering of a group ------------------ *)
\* load_tasks: the active rows, in sheet order
load_tasks(rows) ==
    LET IsActive(row) == row.active IN SelectSeq(rows, IsActive)

\* variant: an element goes in front of the elements with the same start_time
insert_by_start_time_before_equal(sorted_tasks, task) ==
    LET k == Cardinality({n \in 1 .. Len(sorted_tasks) :
                             sorted_tasks[n].start_time < task.start_time})
    IN  SubSeq(sorted_tasks, 1, k) \o <<task>>
            \o SubSeq(sorted_tasks, k + 1, Len(sorted_tasks))

\* one step of a stable sort: the element goes behind every element whose
\* start_time is not greater
insert_by_start_time(sorted_tasks, task) ==
    LET k == Cardinality({n \in 1 .. Len(sorted_tasks) :
                             sorted_tasks[n].start_time <= task.start_time})
    IN  SubSeq(sorted_tasks, 1, k) \o <<task>>
            \o SubSeq(sorted_tasks, k + 1, Len(sorted_tasks))

\* sorted(group_tasks, key=lambda t: t.start_time)
RECURSIVE sorted_by_start_time(_)
sorted_by_start_time(group_tasks) ==
    IF group_tasks = <<>> THEN <<>>
    ELSE insert_by_start_time(
             sorted_by_start_time(SubSeq(group_tasks, 1, Len(group_tasks) - 1)),
             group_tasks[Len(group_tasks)])

\* variant: the file paths in the order in which they are last seen
RECURSIVE file_keys_last_seen(_)
file_keys_last_seen(task_list) ==
    IF task_list = <<>> THEN <<>>
    ELSE LET last == task_list[Len(task_list)].file_path
             IsOther(task) == task.file_path # last
         IN  file_keys_last_seen(SelectSeq(task_list, IsOther)) \o <<last>>

\* the keys of file_groups: the file paths in the order in which they are first
\* seen
RECURSIVE file_keys(_)
file_keys(task_list) ==
    IF task_list = <<>> THEN <<>>
    ELSE LET first == Head(task_list).file_path
             IsOther(task) == task.file_path # first
         IN  <<first>> \o file_keys(SelectSeq(task_list, IsOther))

\* optimized_tasks.extend(sorted_tasks) for the file groups from the k-th on
RECURSIVE extend_from(_, _, _)
extend_from(task_list, keys, k) ==
    IF k > Len(keys) THEN <<>>
    ELSE LET InGroup(task) == task.file_path = keys[k]
         IN  sorted_by_start_time(SelectSeq(task_list, InGroup))
                 \o extend_from(task_list, keys, k + 1)

get_tasks_by_group_optimized(rows, group_name) ==
    LET InGroup(task) == task.group = group_name
        task_list == SelectSeq(load_tasks(rows), InGroup)
    IN  IF task_list = <<>> THEN <<>>
        ELSE extend_from(task_list, file_keys(task_list), 1)

\* one row of the master sheet
TaskRow(group, active, f, s, sheet) ==
    [group |-> group, active |-> active, target_sheet |-> sheet]
        @@ TaskConfig(s, s + 1, f, FALSE)

\* rows of the group on two files, two start times and two sheets, a row that
\* is switched off and a row of another group
RowPool ==
    {TaskRow("G1", TRUE, f, s, sheet) :
        f \in {"A.xlsx", "B.xlsx"}, s \in {1, 2}, sheet \in {"Sheet1", "Sheet2"}}
    \cup {TaskRow("G1", FALSE, "A.xlsx", 1, "Sheet1"),
          TaskRow("G2", TRUE, "B.xlsx", 1, "Sheet1")}

InitOrdering ==
    /\ tasks = <<>>
    /\ configured = <<>>
    /\ force = FALSE
    /\ now = 0
    /\ stop_requested = FALSE
    /\ paused = FALSE
    /\ pc = "idle"
    /\ i = 1
    /\ results = ZeroResults
    /\ caller = "group"
    /\ wait_until = 0
    /\ ct_result = "none"
    /\ ct_waited = FALSE
    /\ ct_slept = FALSE
    /\ original_close_after = FALSE
    /\ should_skip = FALSE
    /\ workbook = NoFile
    /\ current_workbook_path = NoFile
    /\ stage = <<>>
    /\ record = <<>>
    /\ ops = <<>>
    /\ entry_flags = NoFlags
    /\ within = "none"
    /\ master \in {<<>>} \cup SeqsUpTo(RowPool, MaxRows)
    /\ jpholiday = "not_holiday"
    /\ returned = NoCall

\* get_tasks_by_group_optimized("G1") on the master sheet
call_get_tasks_by_group_optimized ==
    /\ returned.fn = "none"
    /\ returned' = Returned("get_tasks_by_group_optimized",
                            get_tasks_by_group_optimized(master, "G1"))
    /\ UNCHANGED restOfState

\* the same call on a master sheet whose rows are the list just returned
call_get_tasks_by_group_optimized_again ==
    /\ returned.fn = "get_tasks_by_group_optimized"
    /\ returned' = Returned("get_tasks_by_group_optimized twice",
                            [first |-> returned.value,
                             second |-> get_tasks_by_group_optimized(returned.value, "G1")])
    /\ UNCHANGED restOfState

NextOrdering ==
    \/ call_get_tasks_by_group_optimized
    \/ call_get_tasks_by_group_optimized_again

SpecOrdering == InitOrdering /\ [][NextOrdering]_vars

(* ------------------- ConfigLoader: views sorted by time ------------------ *)
\* the group names of the sheet in the order of Python's string comparison
GroupNames == <<"G1", "G2">>

GroupRank(group) == CHOOSE k \in 1 .. Len(GroupNames) : GroupNames[k] = group

\* (a.start_time, a.group) <= (b.start_time, b.group) as tuples
start_time_group_le(a, b) ==
    \/ a.start_time < b.start_time
    \/ a.start_time = b.start_time /\ GroupRank(a.group) <= GroupRank(b.group)

\* one step of a stable sort on the key (start_time, group)
insert_by_start_time_group(sorted_tasks, task) ==
    LET k == Cardinality({n \in 1 .. Len(sorted_tasks) :
                             start_time_group_le(sorted_tasks[n], task)})
    IN  SubSeq(sorted_tasks, 1, k) \o <<task>>
            \o SubSeq(sorted_tasks, k + 1, Len(sorted_tasks))

\* sorted(tasks, key=lambda t: (t.start_time, t.group))
RECURSIVE sorted_by_start_time_group(_)
sorted_by_start_time_group(task_list) ==
    IF task_list = <<>> THEN <<>>
    ELSE insert_by_start_time_group(
             sorted_by_start_time_group(SubSeq(task_list, 1, Len(task_list) - 1)),
             task_list[Len(task_list)])

get_tasks_from_start_time(rows, start_time) ==
    LET NotBefore(task) == task.start_time >= start_time
        filtered == SelectSeq(load_tasks(rows), NotBefore)
    IN  sorted_by_start_time(filtered)

get_all_tasks_sorted(rows) == sorted_by_start_time_group(load_tasks(rows))

call_get_tasks_from_start_time(start_time) ==
    /\ returned.fn = "none"
    /\ returned' = Returned("get_tasks_from_start_time",
                            [start_time |-> start_time,
                             tasks |-> get_tasks_from_start_time(master, start_time)])
    /\ UNCHANGED restOfState

call_get_all_tasks_sorted ==
    /\ returned.fn = "none"
    /\ returned' = Returned("get_all_tasks_sorted", get_all_tasks_sorted(master))
    /\ UNCHANGED restOfState

NextViews ==
    \/ \E start_time \in 1 .. 2 : call_get_tasks_from_start_time(start_time)
    \/ call_get_all_tasks_sorted

SpecViews == InitOrdering /\ [][NextViews]_vars

(* ======================= properties: session window ==================== *)
\* the window and the instant is_within_session was called with
WinStart == tasks[1].start_time

WinEnd == tasks[1].end_time

WinNow == TimeOf(now)

\* C1: for a same-day window (start_time <= end_time) is_within_session is true
\* iff start_time <= now.time() <= end_time: true at exactly start, at exactly
\* end and strictly between, false just before start and just after end
C1_SameDayWindow ==
    (within # "none" /\ WinStart <= WinEnd) =>
        /\ (within = "true") <=> (WinStart <= WinNow /\ WinNow <= WinEnd)
        /\ WinNow \in {WinStart, WinEnd} => within = "true"
        /\ WinNow \in {WinStart - 1, WinEnd + 1} => within = "false"

C1_Witness ==
    /\ within = "true"
    /\ WinStart + 1 < WinEnd
    /\ WinNow = WinEnd

\* C2: for a midnight-crossing window (start_time > end_time) is_within_session
\* is true iff now.time() >= start_time or now.time() <= end_time (so at exactly
\* start, at exactly end and at 00:00) and false strictly between end and start
C2_MidnightCrossingWindow ==
    (within # "none" /\ WinStart > WinEnd) =>
        /\ (within = "true") <=> (WinNow >= WinStart \/ WinNow <= WinEnd)
        /\ WinNow \in {WinStart, WinEnd, 0} => within = "true"
        /\ (WinEnd < WinNow /\ WinNow < WinStart) => within = "false"

C2_Witness ==
    /\ within = "true"
    /\ WinStart > WinEnd
    /\ WinEnd > 0
    /\ WinNow = 0
    /\ DateOf(now) = 1

WaitLoop == {"ct_while", "ct_stop_check", "ct_sleep"}

PauseLoop == {"pause_while", "pause_sleep"}

AfterCheckTime == {"rg_after_check_time", "rt_after_check_time"}

Running == pc # "idle"

\* now.time() lies in the task's window, both ends included
InsideWindow(task, n) ==
    LET t == TimeOf(n) IN
    IF task.start_time <= task.end_time
    THEN task.start_time <= t /\ t <= task.end_time
    ELSE t >= task.start_time \/ t <= task.end_time

\* C4: in force mode check_time returns True at once for every task, whatever
\* the window, the clock and the two flags: it never waits, never returns
\* False, and no task of a force-mode batch is skipped for a time reason
C4_ForceBypassesTimeCheck ==
    /\ [][(pc = "check_time" /\ force /\ pc' # pc) =>
            (/\ ct_result' = "true"
             /\ ct_waited' = ct_waited
             /\ pc' \in AfterCheckTime
             /\ now' = now)]_vars
    /\ [](force =>
            /\ pc \notin WaitLoop
            /\ ct_result # "false"
            /\ \A j \in 1 .. Len(record) :
                    record[j] = "skipped" => stage[j] = "recurrence")

C4_Witness ==
    /\ force
    /\ pc = "rg_after_check_time"
    /\ ct_result = "true"
    /\ ~ct_waited
    /\ ~InsideWindow(tasks[i], now)
    /\ stop_requested
    /\ paused

\* C5: in normal mode, when the current time is inside the task's window (the
\* start and end instants included) check_time returns True at once without
\* entering its wait loop, and run_group dispatches the task instead of
\* skipping it
C5_InsideWindowRunsAtOnce ==
    /\ [][(pc = "check_time" /\ ~force /\ InsideWindow(tasks[i], now) /\ pc' # pc) =>
            (/\ ct_result' = "true"
             /\ ct_waited' = ct_waited
             /\ pc' \in AfterCheckTime
             /\ now' = now)]_vars
    /\ [][(pc = "rg_after_check_time" /\ ct_result = "true" /\ pc' # pc) =>
            (/\ stage'[i] = "run_task"
             /\ record' = record
             /\ results' = results)]_vars
    /\ [](\A j \in 1 .. Len(record) :
            stage[j] = "run_task" => record[j] # "skipped")

C5_Witness ==
    /\ pc = "check_time"
    /\ caller = "task"
    /\ stage[i] = "run_task"
    /\ ~force
    /\ ct_result = "true"
    /\ ~ct_waited
    /\ tasks[i].start_time = 1
    /\ tasks[i].end_time = 3
    /\ TimeOf(now) = 2

\* C6: when run_group finds stop_requested set at the start of an iteration,
\* before or after the pause wait, it leaves the loop: that task and every
\* later one is neither recurrence-checked, time-checked nor dispatched, and
\* none of them is counted
C6_CancelStopsIteration ==
    /\ [][(pc \in {"for", "stop_recheck"} /\ i <= Len(tasks)
                /\ stop_requested /\ pc' # pc) =>
            (pc' = "rg_end" /\ UNCHANGED <<tasks, i, results, stage, record, ops>>)]_vars
    /\ [](pc = "rg_end" =>
            /\ \A j \in i .. Len(tasks) : stage[j] = "none" /\ record[j] = "none"
            /\ results.success + results.failed + results.skipped = i - 1)

C6_Witness ==
    /\ pc = "rg_end"
    /\ Len(tasks) = 2
    /\ i = 2
    /\ stop_requested
    /\ record = <<"success", "none">>
    /\ stage[2] = "none"

\* C7: if request_stop() is called while a task is blocked in the wait loop of
\* check_time, the last sleep before start_time included, check_time returns
\* False, the task is recorded as skipped, never dispatched and never counted
\* as success or failed: the flag is read at every wake-up of the loop
C7_CancelDuringWaitSkips ==
    /\ [][(pc = "ct_while" /\ ct_slept /\ caller = "group" /\ stop_requested
                /\ pc' # pc) =>
            (ct_result' = "false" /\ pc' = "rg_after_check_time")]_vars
    /\ [][(pc = "rg_after_check_time" /\ ct_waited /\ ct_result = "false"
                /\ pc' # pc) =>
            (/\ record'[i] = "skipped"
             /\ stage'[i] = "check_time"
             /\ results' = Bump(results, "skipped"))]_vars

\* C8: while paused is set at a task boundary run_group stays in its pause loop
\* and starts no recurrence check, time check or dispatch for the next task
\* until the flag is cleared; a cancel seen while paused ends the loop and the
\* batch stops without attempting or counting that task
C8_PauseBlocksNextTask ==
    /\ [][(pc = "pause_while" /\ paused /\ pc' # pc) => pc' = "pause_sleep"]_vars
    /\ [][(pc \in PauseLoop /\ pc' \notin PauseLoop) =>
            (/\ ~paused \/ stop_requested
             /\ pc' = "stop_recheck"
             /\ UNCHANGED <<tasks, i, results, stage, record, ops>>)]_vars
    /\ [][(pc = "stop_recheck" /\ stop_requested /\ pc' # pc) =>
            (pc' = "rg_end" /\ UNCHANGED <<tasks, i, results, stage, record, ops>>)]_vars
    /\ [](pc \in PauseLoop \cup {"stop_recheck"} =>
            stage[i] = "none" /\ record[i] = "none")

C8_Witness ==
    /\ pc = "stop_recheck"
    /\ paused
    /\ stop_requested
    /\ i = 2
    /\ record = <<"success", "none">>

\* C9 as claimed: at the start of every run_group call both flags,
\* stop_requested and paused, are reset to false
C9_BothFlagsReset ==
    [][(pc = "rg_init" /\ pc' = "for") => (~stop_requested' /\ ~paused')]_vars

\* C9 as amended: at the start of every run_group call stop_requested is reset to
\* false, so a cancel left over from before the call does not reach the new
\* batch; paused keeps the value it had
C9_OnlyCancelReset ==
    [][(pc = "rg_init" /\ pc' = "for") =>
            (~stop_requested' /\ paused' = paused)]_vars

C9_Witness ==
    /\ pc = "for"
    /\ i = 1
    /\ entry_flags.stop_requested
    /\ entry_flags.paused
    /\ ~stop_requested
    /\ paused

\* C10: run_group never writes paused: a pause requested before or during a
\* batch stays set until resume() is called, and at batch start it is only
\* stop_requested that run_group resets
C10_PauseOnlyClearedByResume ==
    /\ [][paused' # paused => UNCHANGED <<stop_requested, now, runnerVars>>]_vars
    /\ [][(Running /\ pc' # pc) => paused' = paused]_vars
    /\ [][(pc = "rg_init" /\ pc' = "for" /\ entry_flags.paused /\ paused) =>
            (paused' /\ ~stop_requested')]_vars

C10_Witness ==
    /\ pc = "pause_sleep"
    /\ i = 2
    /\ record[1] = "success"
    /\ paused
    /\ ~stop_requested

(* ================= properties: skipping and time eligibility ============ *)
\* C11: when should_skip_task signals skip for a task, run_group adds exactly
\* one to skipped, leaves success and failed as they are, makes no check_time
\* call and no run_task call for that task, restores its close_after and goes on
\* to the next task
C11_RecurrenceSkipCounted ==
    /\ [][(pc = "after_should_skip" /\ should_skip /\ pc' # pc) =>
            (/\ results' = Bump(results, "skipped")
             /\ record' = [record EXCEPT ![i] = "skipped"]
             /\ stage' = stage
             /\ ops' = ops
             /\ i' = i + 1
             /\ pc' = "for"
             /\ UNCHANGED <<workbook, current_workbook_path>>)]_vars
    /\ [](Running =>
            \A j \in 1 .. Len(stage) :
                (stage[j] = "recurrence" /\ j < i) =>
                    (record[j] = "skipped" /\ ops[j] = <<>>))

C11_Witness ==
    /\ pc = "after_should_skip"
    /\ Len(tasks) = 2
    /\ i = 2
    /\ ~should_skip
    /\ record = <<"skipped", "none">>
    /\ stage = <<"recurrence", "recurrence">>
    /\ results = Bump(ZeroResults, "skipped")

\* C12: in a batch without force a task for which check_time returns False,
\* in run_group or in the second call made by run_task, is counted under
\* skipped and never under failed or success
C12_IneligibleIsSkipped ==
    [][(pc \in AfterCheckTime /\ ~force /\ ct_result = "false" /\ pc' # pc) =>
            (/\ record'[i] = "skipped"
             /\ results' = Bump(results, "skipped"))]_vars

(* ================== properties: dispatch and the workbook =============== *)
HasCall(calls, name) == \E k \in 1 .. Len(calls) : calls[k].call = name

HasFailedCall(calls, name) ==
    \E k \in 1 .. Len(calls) : calls[k].call = name /\ ~calls[k].ok

AnyFailedCall(calls) == \E k \in 1 .. Len(calls) : ~calls[k].ok

\* the task opened its workbook or found it open
HeldWorkbook(calls) ==
    \/ HasCall(calls, "reuse")
    \/ \E k \in 1 .. Len(calls) : calls[k].call = "open_workbook" /\ calls[k].ok

\* number of open_workbook calls made in the batch so far
Opens ==
    Cardinality({jk \in UNION {{<<j, k>> : k \in DOMAIN ops[j]} : j \in DOMAIN ops} :
                    ops[jk[1]][jk[2]].call = "open_workbook"})

\* C13: a call that fails or raises at any step of a task (start, open, fetch
\* trigger, fetch await, write, macro, post-action, close) makes that task
\* failed: failed grows by one and run_group goes on to the next task
C13_StepFailureFailsTask ==
    /\ [][(pc = "rt_body" /\ pc' # pc /\ AnyFailedCall(ops'[i])) =>
            (/\ results' = Bump(results, "failed")
             /\ i' = i + 1
             /\ pc' = "for")]_vars
    /\ [](Running =>
            \A j \in 1 .. Len(ops) : AnyFailedCall(ops[j]) => record[j] = "failed")

\* C14: of two consecutive tasks on the same file_path, the earlier one
\* configured with close_after false and holding the workbook open, the later
\* one reuses the open workbook: no close of it and no second open_workbook
\* call happens between them
C14_ConsecutiveSameFileReuses ==
    Running =>
        \A j \in 1 .. Len(ops) - 1 :
            (/\ configured[j].file_path = configured[j + 1].file_path
             /\ ~configured[j].close_after
             /\ HeldWorkbook(ops[j])
             /\ HasCall(ops[j + 1], "start_excel")
             /\ ~HasFailedCall(ops[j + 1], "start_excel")) =>
                (/\ ~HasCall(ops[j], "close_workbook")
                 /\ HasCall(ops[j + 1], "reuse")
                 /\ ~HasCall(ops[j + 1], "close_previous")
                 /\ ~HasCall(ops[j + 1], "open_workbook"))

C14_Witness ==
    /\ pc = "for"
    /\ Len(tasks) = 2
    /\ i = 3
    /\ configured[1].file_path = configured[2].file_path
    /\ ~configured[1].close_after
    /\ HasCall(ops[1], "open_workbook")
    /\ HasCall(ops[2], "reuse")
    /\ record = <<"success", "success">>

\* a batch of tasks on one file has ended with every task run and successful
SameFileBatchDone ==
    /\ pc = "rg_end"
    /\ force
    /\ \A j \in 1 .. Len(tasks) :
           /\ configured[j].file_path = configured[1].file_path
           /\ stage[j] = "run_task"
           /\ record[j] = "success"

\* a task followed in the list by a task on the same file never closes the
\* workbook, whatever its configured close_after
CloseDeferred ==
    Running =>
        \A j \in 1 .. Len(ops) - 1 :
            configured[j].file_path = configured[j + 1].file_path =>
                ~HasCall(ops[j], "close_workbook")

\* C15 as claimed: close is deferred while the next task has the same
\* file_path, and a force batch of tasks on one file that all succeed opens the
\* workbook exactly once
C15_OpenedExactlyOnce ==
    /\ CloseDeferred
    /\ SameFileBatchDone => Opens = 1

\* C15 as amended: close is deferred while the next task has the same file_path,
\* and a force batch of tasks on one file that all succeed opens the workbook
\* once if its first task does not find it open already, and never otherwise
C15_OpenedAtMostOnce ==
    /\ CloseDeferred
    /\ SameFileBatchDone =>
           Opens = (IF HasCall(ops[1], "reuse") THEN 0 ELSE 1)

C15_Witness ==
    /\ SameFileBatchDone
    /\ Len(tasks) = 2
    /\ configured[1].close_after
    /\ configured[2].close_after
    /\ Opens = 1
    /\ ~HasCall(ops[1], "close_workbook")
    /\ HasCall(ops[2], "reuse")
    /\ HasCall(ops[2], "close_workbook")
    /\ workbook = NoFile

\* C16: between iterations and when run_group returns, after a recurrence skip,
\* a time skip, a success, a failure or a cancellation, every task record has
\* the close_after it had when run_group was called
C16_CloseAfterRestored ==
    pc \in {"for", "pause_while", "pause_sleep", "stop_recheck", "iteration",
            "rg_end"} => tasks = configured

C16_Witness ==
    /\ pc = "rg_end"
    /\ Len(tasks) = 2
    /\ stop_requested
    /\ configured[1].file_path = configured[2].file_path
    /\ configured[1].close_after
    /\ record = <<"success", "none">>
    /\ ~HasCall(ops[1], "close_workbook")
    /\ tasks = configured

\* C17: run_group closes nothing after its loop, and when it returns the
\* workbook of the last task that was dispatched, if that task succeeded, is
\* closed when the task's configured close_after is true and open when it is
\* false, also when later tasks on the same file were skipped or cancelled
C17_LastClosePolicyHonored ==
    /\ [][(pc = "rg_end" /\ pc' # pc) =>
            UNCHANGED <<workbook, current_workbook_path>>]_vars
    /\ [](pc = "rg_end" =>
            \A k \in 1 .. Len(ops) :
                (/\ ops[k] # <<>>
                 /\ \A j \in (k + 1) .. Len(ops) : ops[j] = <<>>
                 /\ record[k] = "success") =>
                    IF configured[k].close_after
                    THEN workbook = NoFile
                    ELSE workbook = configured[k].file_path)

(* ========================= properties: post-action ====================== *)
IsPause(action_after) == action_after \in {"Pause", "pause"}

\* the call that follows the first call named `name`, or "none"
CallAfter(calls, name) ==
    IF \E k \in 1 .. Len(calls) - 1 : calls[k].call = name
    THEN calls[1 + CHOOSE k \in 1 .. Len(calls) - 1 :
                      /\ calls[k].call = name
                      /\ \A n \in 1 .. k - 1 : calls[n].call # name].call
    ELSE "none"

\* C18: for a task with ActionAfter PAUSE, once the message has been
\* acknowledged save_workbook is called, and whether or not that save works the
\* task is counted under success
C18_PauseSaveFailureIgnored ==
    Running =>
        \A j \in 1 .. Len(ops) :
            (IsPause(configured[j].action_after) /\ HasCall(ops[j], "show_info")) =>
                (/\ CallAfter(ops[j], "show_info") = "save_workbook"
                 /\ record[j] = "success")

C18_Witness ==
    /\ pc = "for"
    /\ i = 2
    /\ IsPause(configured[1].action_after)
    /\ HasFailedCall(ops[1], "save_workbook")
    /\ record = <<"success">>
    /\ results = Bump(ZeroResults, "success")

\* C19 as claimed: a task that reaches its post-action saves nothing and shows
\* nothing when ActionAfter is NONE, saves the workbook when it is SAVE, blank
\* or unrecognized, and shows the blocking message only when it is PAUSE
C19_BlankSaves ==
    Running =>
        \A j \in 1 .. Len(ops) :
            record[j] = "success" =>
                LET a == configured[j].action_after
                IN  /\ a = "None" => ~HasCall(ops[j], "save_workbook")
                    /\ a \in {"Save", "", "nan"} => HasCall(ops[j], "save_workbook")
                    /\ HasCall(ops[j], "show_info") <=> IsPause(a)

\* C19 as amended: a task that reaches its post-action saves nothing and shows
\* nothing when ActionAfter is NONE or blank, saves the workbook when it is SAVE
\* or unrecognized, and shows the blocking message only when it is PAUSE
C19_BlankDoesNotSave ==
    Running =>
        \A j \in 1 .. Len(ops) :
            record[j] = "success" =>
                LET a == configured[j].action_after
                IN  /\ a \in {"None", ""} => ~HasCall(ops[j], "save_workbook")
                    /\ a \in {"Save", "nan"} => HasCall(ops[j], "save_workbook")
                    /\ HasCall(ops[j], "show_info") <=> IsPause(a)

C19_Witness ==
    /\ pc = "for"
    /\ i = 2
    /\ configured[1].action_after = ""
    /\ record = <<"success">>
    /\ HasCall(ops[1], "open_workbook")
    /\ ~HasCall(ops[1], "save_workbook")
    /\ ~HasCall(ops[1], "show_info")

\* C20: a task whose open_workbook call fails, or whose save_workbook call in
\* the SAVE post-action fails, is counted under failed and not under success
C20_ResourceErrorFailsTask ==
    Running =>
        \A j \in 1 .. Len(ops) :
            (\/ HasFailedCall(ops[j], "open_workbook")
             \/ (/\ ~IsPause(configured[j].action_after)
                 /\ HasFailedCall(ops[j], "save_workbook"))) =>
                record[j] = "failed"

(* ============================ properties: macro ========================= *)
\* every call named in `first` comes before every call named in `then`
CallsInOrder(calls, first, then) ==
    \A k, m \in 1 .. Len(calls) :
        (calls[k].call \in first /\ calls[m].call \in then) => k < m

RecTask == tasks[1]

\* today's ISO weekday, counted from the Sunday the clock starts on
TodayWeekday == IF DateOf(now) % 7 = 0 THEN 7 ELSE DateOf(now) % 7

TodayDay == Today(now).day

\* tomorrow is the first of a month
TodayIsLastDay == Today(now + DayLen).day = 1

WorkingDays == <<"1", ",", "2", ",", "3", ",", "4", ",", "5">>

Weekend == <<"6", ",", " ", "7", " ">>

BlankFilters == {<<>>, <<" ">>, <<" ", " ">>}

\* weekday filters with a piece that is not a number
BadWeekdayFilters == {<<"x">>, <<"3", ",", "x">>}

\* day-of-month filters with a piece that is neither a number nor the mark L
BadDateFilters == {<<"x">>, <<"2", "8", ",", "x">>}

\* the day numbers written in a day-of-month filter, and whether it has the
\* last-day mark
DayLiterals(filter) ==
    CASE filter = <<"1", ",", "1", "5">> -> {1, 15}
      [] filter = <<"2", "8", ",", "x">> -> {28}
      [] filter = <<"3", "0", ",", "L">> -> {30}
      [] OTHER -> {}

HasLastDayMark(filter) == filter \in {<<"L">>, <<" ", "l">>, <<"3", "0", ",", "L">>}

\* C22: should_skip_task makes the weekday check, then the holiday check, then
\* the day-of-month check; it returns (True, reason) of the first check that
\* fails and calls none of the later ones, and returns (False, "") iff all three
\* pass
C22_ChecksInOrder ==
    returned.fn = "should_skip_task" =>
        LET weekday_ok == check_weekday_condition(RecTask.weekdays, now)
            holiday_ok == ~(RecTask.skip_holiday /\ jpholiday = "holiday")
            date_ok == check_date_condition(RecTask.date_condition, now)
            asked == IF RecTask.skip_holiday THEN <<"is_japanese_holiday">> ELSE <<>>
            r == returned.value
        IN  /\ ~weekday_ok =>
                   r = SkipResult(TRUE, "weekday", <<"check_weekday_condition">>)
            /\ (weekday_ok /\ ~holiday_ok) =>
                   r = SkipResult(TRUE, "holiday", <<"check_weekday_condition",
                                                     "is_japanese_holiday">>)
            /\ (weekday_ok /\ holiday_ok /\ ~date_ok) =>
                   r = SkipResult(TRUE, "date", <<"check_weekday_condition">> \o asked
                                                    \o <<"check_date_condition">>)
            /\ ~r.skip <=> (weekday_ok /\ holiday_ok /\ date_ok)
            /\ ~r.skip => r.reason = ""

C22_Witness ==
    /\ returned.fn = "should_skip_task"
    /\ RecTask.weekdays = WorkingDays
    /\ TodayWeekday = 6
    /\ RecTask.skip_holiday
    /\ jpholiday = "holiday"
    /\ RecTask.date_condition = <<"L">>
    /\ ~TodayIsLastDay
    /\ returned.value = SkipResult(TRUE, "weekday", <<"check_weekday_condition">>)

\* C23: on every date a weekday filter with a piece that is not a number makes
\* the weekday check pass, a day-of-month filter with a piece that is neither a
\* number nor the mark L makes the day-of-month check pass, and such a task is
\* not skipped for them
C23_UnparseableFailsOpen ==
    /\ (returned.fn = "check_weekday_condition"
            /\ RecTask.weekdays \in BadWeekdayFilters) => returned.value
    /\ (returned.fn = "check_date_condition"
            /\ RecTask.date_condition \in BadDateFilters) => returned.value
    /\ (returned.fn = "should_skip_task"
            /\ RecTask.weekdays \in BadWeekdayFilters
            /\ RecTask.date_condition \in BadDateFilters) =>
           returned.value.reason \notin {"weekday", "date"}

\* C24: the weekday check passes on every date when the filter is empty or
\* blank, and for a well-formed filter it passes iff today's ISO weekday
\* (1 = Monday .. 7 = Sunday) is one of the filter's numbers
C24_WeekdayCheck ==
    returned.fn = "check_weekday_condition" =>
        /\ RecTask.weekdays \in BlankFilters => returned.value
        /\ RecTask.weekdays = WorkingDays => (returned.value <=> TodayWeekday \in 1 .. 5)
        /\ RecTask.weekdays = Weekend => (returned.value <=> TodayWeekday \in {6, 7})

C24_Witness ==
    /\ returned.fn = "check_weekday_condition"
    /\ RecTask.weekdays = Weekend
    /\ TodayWeekday = 7
    /\ Today(now) = [year |-> 2024, month |-> 2, day |-> 4]
    /\ returned.value

C26_HolidaySkipOnlyWhenAsked ==
    returned.fn = "should_skip_task" =>
        LET r == returned.value
            asked == \E k \in 1 .. Len(r.evaluated) :
                         r.evaluated[k] = "is_japanese_holiday"
        IN  /\ r.reason = "holiday" => (RecTask.skip_holiday /\ jpholiday = "holiday")
            /\ ~RecTask.skip_holiday => ~asked
            /\ jpholiday = "unavailable" => r.reason # "holiday"

C26_Witness ==
    /\ returned.fn = "should_skip_task"
    /\ RecTask.skip_holiday
    /\ jpholiday = "unavailable"
    /\ RecTask.weekdays = <<>>
    /\ RecTask.date_condition = <<>>
    /\ returned.value = SkipResult(FALSE, "", <<"check_weekday_condition",
                                               "is_japanese_holiday",
                                               "check_date_condition">>)

(* ========================= properties: task ordering ==================== *)
IsWanted(row) == row.active /\ row.group = "G1"

\* the active rows of the group, in sheet order
Wanted == SelectSeq(master, IsWanted)

Occurrences(seq, e) == Cardinality({k \in 1 .. Len(seq) : seq[k] = e})

FirstIndex(seq, f) == CHOOSE k \in 1 .. Len(seq) :
                          seq[k].file_path = f /\ \A n \in 1 .. k - 1 : seq[n].file_path # f

\* the elements of seq with the given file_path and start_time, in order
SameKey(seq, f, t) ==
    LET Has(e) == e.file_path = f /\ e.start_time = t IN SelectSeq(seq, Has)

C28_OrderingIdempotent ==
    returned.fn = "get_tasks_by_group_optimized twice" =>
        returned.value.second = returned.value.first

C28_Witness ==
    /\ returned.fn = "get_tasks_by_group_optimized twice"
    /\ Len(master) = 3
    /\ Len(Wanted) = 3
    /\ returned.value.first # Wanted
    /\ returned.value.first[1].start_time = returned.value.first[2].start_time
    /\ returned.value.first[1].file_path = returned.value.first[2].file_path
    /\ returned.value.first[1] # returned.value.first[2]
    /\ returned.value.second = returned.value.first

(* ======================= properties: order of execution ================= *)
\* the iteration of task j has begun
Begun(j) == stage[j] # "none"

\* the iteration of task j is over
Finished(j) == record[j] # "none"

\* task j as it was handed to run_group, whatever close_after says now
SameTask(j) == [tasks[j] EXCEPT !.close_after = configured[j].close_after] = configured[j]

\* C29: run_group processes the tasks one at a time and strictly in the order
\* of the list it was given: a task is checked or dispatched only when the
\* iterations of all tasks before it are over, no task before the current one
\* is left out, at most one task is in progress, and close deferral and
\* workbook reuse leave every position of the list holding the task given there
C29_StrictListOrder ==
    /\ Len(tasks) = Len(configured)
    /\ \A j \in DOMAIN tasks :
           /\ SameTask(j)
           /\ Begun(j) => j <= i
           /\ Finished(j) <=> j < i
           /\ ops[j] # <<>> => Finished(j)
           /\ (Begun(j) /\ ~Finished(j)) =>
                  /\ j = i
                  /\ \A k \in 1 .. j - 1 : Finished(k)
                  /\ \A k \in DOMAIN tasks : k > j => ~Begun(k) /\ ops[k] = <<>>

C29_Witness ==
    /\ Len(tasks) = 2
    /\ configured[1].file_path = configured[2].file_path
    /\ configured[1].close_after
    /\ tasks[1].close_after
    /\ HasCall(ops[1], "open_workbook")
    /\ record[1] = "success"
    /\ workbook = configured[1].file_path
    /\ i = 2
    /\ stage[2] = "check_time"
    /\ ~Finished(2)

(* ======================= properties: control operations ================= *)
\* what the worker owns: counters, workbook handle and path, task records
workerState == <<results, workbook, current_workbook_path, tasks, configured, record, ops,
                 stage, i>>

\* C30: the control operations only set or clear their own flag: a step that
\* raises stop_requested leaves paused unchanged, a step that sets or clears
\* paused leaves stop_requested unchanged, and neither changes the result
\* counters, the workbook handle, the current workbook path or a task record
C30_ControlTouchesOwnFlag ==
    [][/\ (~stop_requested /\ stop_requested') => UNCHANGED <<paused, workerState>>
       /\ (paused' # paused) => UNCHANGED <<stop_requested, workerState>>]_vars

C30_Witness ==
    /\ stop_requested
    /\ paused
    /\ entry_flags = NoFlags
    /\ Len(tasks) = 2
    /\ i = 2
    /\ record[1] = "success"
    /\ results.success = 1
    /\ workbook = configured[1].file_path
    /\ current_workbook_path = workbook

(* ================== properties: the window and the wait ================= *)
SameDayWindow(task) == task.start_time <= task.end_time

\* the window has closed for today
PastEnd(task, n) == SameDayWindow(task) /\ TimeOf(n) > task.end_time

\* a same-day window past its end: check_time returns False in one step, with
\* no wait and no sleep
ClosedWindowReturnsAtOnce ==
    [][(pc = "check_time" /\ ~force /\ PastEnd(tasks[i], now) /\ pc' # pc) =>
            (/\ ct_result' = "false"
             /\ pc' \in AfterCheckTime
             /\ UNCHANGED <<now, ct_waited, ct_slept, wait_until>>)]_vars

\* a same-day window is waited for only before its start
WaitsOnlyBeforeStart ==
    [][(pc = "check_time" /\ SameDayWindow(tasks[i]) /\ pc' \in WaitLoop) =>
            (~force /\ TimeOf(now) < tasks[i].start_time)]_vars

\* a False that check_time returned without a cancellation is counted as skipped
ClosedWindowCountedSkipped ==
    [][(pc \in AfterCheckTime /\ ~force /\ SameDayWindow(tasks[i])
            /\ ct_result = "false" /\ ~stop_requested /\ pc' # pc) =>
            (/\ record'[i] = "skipped"
             /\ results' = Bump(results, "skipped")
             /\ ops'[i] = <<>>)]_vars

\* C31: in normal mode with a same-day window, when the current time is after
\* end_time check_time returns False at once without sleeping and run_group
\* records the task as skipped; check_time waits only when the current time is
\* before start_time
C31_PastEndSkippedAtOnce ==
    /\ ClosedWindowReturnsAtOnce
    /\ WaitsOnlyBeforeStart
    /\ ClosedWindowCountedSkipped

ReturnPoint == IF caller = "group" THEN "rg_after_check_time" ELSE "rt_after_check_time"

ReadyAt(calls) ==
    CHOOSE k \in 1 .. Len(calls) :
        calls[k].call = "reuse" \/ (calls[k].call = "open_workbook" /\ calls[k].ok)

HasReady(calls) ==
    \E k \in 1 .. Len(calls) :
        calls[k].call = "reuse" \/ (calls[k].call = "open_workbook" /\ calls[k].ok)

\* C33: for a task with skip_download true run_task makes no CSV cleanup, no
\* download trigger, no download wait and no paste into the workbook; right
\* after the workbook is opened or reused comes the macro, if the task has one,
\* and otherwise the ActionAfter step
C33_SkipDownloadSkipsFetch ==
    \A j \in 1 .. Len(ops) :
        (configured[j].skip_download /\ ops[j] # <<>>) =>
            /\ \A k \in 1 .. Len(ops[j]) : ~IsDownloadStep(ops[j][k].call)
            /\ HasReady(ops[j]) =>
                   LET k == ReadyAt(ops[j])
                       rest == SubSeq(ops[j], k + 1, Len(ops[j]))
                   IN  /\ configured[j].macro_name # "" =>
                              (rest # <<>> /\ rest[1].call = "run_macro")
                       /\ (configured[j].macro_name = "" /\ rest # <<>>) =>
                              rest[1].call \in {"show_info", "save_workbook",
                                                "close_workbook", "_notify_progress"}
                       /\ record[j] = "success" =>
                              rest = SelectSeq(rest, LAMBDA c :
                                         c.call \in {"run_macro", "show_warning"})
                                     \o SelectSeq(rest, LAMBDA c :
                                            c.call \in {"show_info", "save_workbook"})
                                     \o SelectSeq(rest, LAMBDA c :
                                            c.call \in {"close_workbook", "quit_excel"})

C33_Witness ==
    /\ Len(ops) = 1
    /\ configured[1].skip_download
    /\ configured[1].macro_name = "Macro1"
    /\ configured[1].action_after = "Save"
    /\ ~configured[1].close_after
    /\ record[1] = "success"
    /\ ops[1] = <<Call("start_excel", TRUE), Call("open_workbook", TRUE),
                  Call("run_macro", TRUE), Call("save_workbook", TRUE)>>

\* run_task fails in this step after the workbook of the task was made ready
FailsWithWorkbook ==
    /\ pc = "rt_body"
    /\ pc' # pc
    /\ record'[i] = "failed"
    /\ HasReady(ops'[i])

EndsWithClose(calls) ==
    /\ Len(calls) >= 2
    /\ calls[Len(calls) - 1].call = "close_workbook"
    /\ calls[Len(calls)].call = "quit_excel"

TouchesWorkbook(name) == name \in {"paste_data_to_sheet", "run_macro", "save_workbook"}

\* the workbooks open after the calls, for a task on `file` that found `open`
RECURSIVE OpenBooks(_, _, _)
OpenBooks(open, calls, file) ==
    IF calls = <<>> THEN open
    ELSE LET c == calls[Len(calls)]
             before == OpenBooks(open, SubSeq(calls, 1, Len(calls) - 1), file)
         IN  IF c.call \in {"close_previous", "close_workbook"} THEN {}
             ELSE IF c.call = "open_workbook" /\ c.ok THEN before \cup {<<file, Len(calls)>>}
             ELSE before

ActiveRows == SelectSeq(master, LAMBDA row : row.active)

\* start_time does not decrease along the list and, where it is equal, the
\* group does not decrease
TimeThenGroupOrder(list) ==
    \A a, b \in 1 .. Len(list) :
        a < b =>
            \/ list[a].start_time < list[b].start_time
            \/ /\ list[a].start_time = list[b].start_time
               /\ GroupRank(list[a].group) <= GroupRank(list[b].group)

\* the whole-schedule view holds the active rows, in (start_time, group) order
AllTasksViewOrdered ==
    returned.fn = "get_all_tasks_sorted" =>
        /\ TimeThenGroupOrder(returned.value)
        /\ \A row \in RowPool :
               Occurrences(returned.value, row) = Occurrences(ActiveRows, row)

\* the from-time view holds exactly the active rows not before the given time
FromTimeViewContents ==
    returned.fn = "get_tasks_from_start_time" =>
        /\ \A row \in RowPool :
               Occurrences(returned.value.tasks, row) =
                   IF row.start_time >= returned.value.start_time
                   THEN Occurrences(ActiveRows, row) ELSE 0
        /\ \A a, b \in 1 .. Len(returned.value.tasks) :
               a < b => returned.value.tasks[a].start_time
                            <= returned.value.tasks[b].start_time

FromTimeViewOrdered ==
    returned.fn = "get_tasks_from_start_time" =>
        TimeThenGroupOrder(returned.value.tasks)

\* C36: get_all_tasks_sorted and get_tasks_from_start_time both list the tasks
\* in non-decreasing start_time order with ties ordered by group, and the
\* from-time view holds exactly the active tasks whose start_time is not before
\* the given time
C36_ViewsSortedByTimeThenGroup ==
    /\ AllTasksViewOrdered
    /\ FromTimeViewContents
    /\ FromTimeViewOrdered

(* ========================= properties: the counts ======================= *)
Counted(key) == Cardinality({j \in 1 .. Len(record) : record[j] = key})

Total == results.success + results.failed + results.skipped

\* C37: each task of the list is counted under exactly one of success, failed
\* and skipped, and once; at every point of run_group the three counts add up to
\* the number of tasks whose iteration is over, never exceed len(tasks), and
\* add up to len(tasks) when the batch ends without a cancellation
C37_CountsMatchIterations ==
    /\ [](Running =>
            /\ results.success = Counted("success")
            /\ results.failed = Counted("failed")
            /\ results.skipped = Counted("skipped")
            /\ Total = i - 1
            /\ Total = Cardinality({j \in 1 .. Len(record) : Finished(j)})
            /\ Total <= Len(tasks)
            /\ (pc = "rg_end" /\ ~stop_requested) => Total = Len(tasks))
    /\ [][(Running /\ pc' # "idle" /\ results' # results) =>
            (/\ ~Finished(i)
             /\ i' = i + 1
             /\ \E key \in {"success", "failed", "skipped"} :
                    /\ results' = Bump(results, key)
                    /\ record' = [record EXCEPT ![i] = key])]_vars

C37_Witness ==
    /\ pc = "rg_end"
    /\ ~stop_requested
    /\ ~force
    /\ Len(tasks) = 2
    /\ record = <<"success", "skipped">>
    /\ results = [success |-> 1, failed |-> 0, skipped |-> 1]
    /\ stage[2] = "check_time"

(* ====================== properties: cancel requests ===================== *)
\* a request made once the loop of run_group is under way stays set, and no
\* further task is started while it is set
CancelInLoopStops ==
    [][(Running /\ pc # "rg_init" /\ stop_requested) =>
            (/\ stop_requested'
             /\ ~(pc # "iteration" /\ pc' = "iteration"))]_vars

\* a request made between the call of run_group and its first statements is
\* still set when the loop starts
CancelBeforeInitKept ==
    [][(pc = "rg_init" /\ ~entry_flags.stop_requested /\ stop_requested /\ pc' # pc) =>
            stop_requested']_vars

\* C38: a cancel request is never lost: when request_stop() is called at any
\* moment after run_group has been invoked, before its flag initialisation
\* included, the batch stops without starting a task beyond the one in progress
C38_CancelNeverLost ==
    /\ CancelInLoopStops
    /\ CancelBeforeInitKept

(* ================ properties: midnight-crossing windows ================= *)
CrossingWindow(task) == task.start_time > task.end_time

InCheckTime == pc \in {"check_time"} \cup WaitLoop

\* C39: for a midnight-crossing window in normal mode check_time never reports
\* the window as closed: outside the window it waits for today's start_time,
\* and it returns False only when it sees a cancellation during that wait
C39_CrossingWindowNeverClosed ==
    /\ [][(pc = "check_time" /\ ~force /\ CrossingWindow(tasks[i])
                /\ ~InsideWindow(tasks[i], now) /\ pc' # pc) =>
            (/\ pc' = "ct_while"
             /\ wait_until' = Combine(DateOf(now), tasks[i].start_time)
             /\ now < wait_until'
             /\ ct_result' = ct_result)]_vars
    /\ [][(InCheckTime /\ ~force /\ CrossingWindow(tasks[i])
                /\ pc' \in AfterCheckTime /\ ct_result' = "false") =>
            (pc = "ct_stop_check" /\ stop_requested)]_vars

C39_Witness ==
    /\ pc = "rg_after_check_time"
    /\ ~force
    /\ CrossingWindow(tasks[i])
    /\ ~InsideWindow(tasks[i], now)
    /\ ct_waited
    /\ ct_result = "false"
    /\ stop_requested
    /\ wait_until = Combine(0, tasks[i].start_time)

(* ========================== properties: termination ===================== *)
\* run_group has returned its counts
Returned_run_group == pc = "idle"

\* the clock of the model has run out under a sleeping check_time
ClockRunOut == pc = "ct_sleep" /\ now + sleep_time(wait_until - now) > MaxNow

\* every pause is eventually followed by resume() or request_stop()
PauseAnswered == [](paused => <>(~paused \/ stop_requested))

\* from some point on the pause flag is left clear, or a cancellation is pending
PauseLifted == <>[](~paused \/ stop_requested)

IterationsBounded == [](Running => (i <= Len(tasks) + 1 /\ Total <= Len(tasks)))

\* C40 as claimed: run_group finishes after at most len(tasks) iterations and
\* returns its counts, provided every external step returns, the clock keeps
\* advancing during start-time waits, and every pause is eventually followed by
\* resume() or request_stop()
C40_TerminatesIfPauseAnswered ==
    /\ IterationsBounded
    /\ PauseAnswered => (Running ~> (Returned_run_group \/ ClockRunOut))

\* C40 as amended: run_group finishes after at most len(tasks) iterations and
\* returns its counts, provided every external step returns, the clock keeps
\* advancing during start-time waits, and from some point on the pause flag is
\* left clear or a cancellation is pending when the pause loop polls it
C40_TerminatesIfPauseLifted ==
    /\ IterationsBounded
    /\ PauseLifted => (Running ~> (Returned_run_group \/ ClockRunOut))

C40_Witness ==
    /\ pc = "rg_end"
    /\ ~force
    /\ ~stop_requested
    /\ Len(tasks) = 2
    /\ i = 3
    /\ ~paused
    /\ record = <<"skipped", "success">>
    /\ Total = 2

====
